---- MODULE Spec2Model ----
(***************************************************************************)
(* couchbase-keepalive: the two keepalive programs of src/main.go.         *)
(*   variant "getset"    : main.go 1-250, loadConfig / testScopeConnection *)
(*                         / keepAlive with a random GET or SET per tick   *)
(*   variant "increment" : main.go 251-379, os.LookupEnv / WaitUntilReady  *)
(*                         / ticker goroutine with an atomic increment and *)
(*                         a signal wait in main                           *)
(* Strings the code inspects are sequences of one-character strings.       *)
(* Durations are in milliseconds.                                          *)
(***************************************************************************)
EXTENDS Integers, Sequences, FiniteSets, TLC

VARIABLES
    variant,          \* which program runs
    env,              \* the process environment: key -> [exists, value]
    pc,               \* position of the main goroutine
    config,           \* Config (getset) / the locals of main (increment)
    log,              \* kinds of log lines written so far
    connects,         \* the gocb.Connect calls made: <<[Username, Password]>>
    connected,        \* a *gocb.Cluster was obtained
    probed,           \* Ping (getset) / WaitUntilReady (increment) succeeded
    closed,           \* cluster.Close was called
    ticker,           \* "none" | "running" | "stopped"
    documentCounter,  \* the global of main.go:17
    ids,              \* document ids generated by performSetOperation, in order
    inFlight,         \* the database call in progress: [op, id]
    last,             \* the last finished tick: [op, id, db, ret]
    ticks,            \* timer ticks consumed
    sig,              \* "none" | "queued" (in sigCh) | "taken" | "killed"
    ctxDone,          \* cancel() was called
    gpc,              \* position of the ticker goroutine (increment)
    exitStatus        \* "running" | "ok" | "fatal" | "panic" | "killed"

vars == <<variant, env, pc, config, log, connects, connected, probed, closed,
          ticker, documentCounter, ids, inFlight, last, ticks, sig, ctxDone,
          gpc, exitStatus>>

----------------------------------------------------------------------------
(* Bounds of the model *)

\* timer ticks followed in one run
MaxTicks == 3
\* longest INTERVAL / OPERATION_TIMEOUT string drawn by the loader specification
MaxDurLen == 2

(* Program constants *)

\* time.Second and time.Minute, in milliseconds
Second == 1000
Minute == 60000

----------------------------------------------------------------------------
(* Strings *)

Str5m == <<"5", "m">>
Str10s == <<"1", "0", "s">>
StrLocalhost == <<"l">>
StrDefault == <<"d">>
StrUnderDefault == <<"_">>

Digits == {"0", "1", "2", "3", "4", "5", "6", "7", "8", "9"}

DigitVal(c) ==
    CASE c = "0" -> 0 [] c = "1" -> 1 [] c = "2" -> 2 [] c = "3" -> 3
      [] c = "4" -> 4 [] c = "5" -> 5 [] c = "6" -> 6 [] c = "7" -> 7
      [] c = "8" -> 8 [] c = "9" -> 9

DigitChar(n) ==
    CASE n = 0 -> "0" [] n = 1 -> "1" [] n = 2 -> "2" [] n = 3 -> "3"
      [] n = 4 -> "4" [] n = 5 -> "5" [] n = 6 -> "6" [] n = 7 -> "7"
      [] n = 8 -> "8" [] n = 9 -> "9"

Drop(s, n) == SubSeq(s, n + 1, Len(s))

\* fmt.Sprintf("%d", n) for n >= 0
RECURSIVE FormatInt(_)
FormatInt(n) ==
    IF n < 10 THEN <<DigitChar(n)>>
    ELSE Append(FormatInt(n \div 10), DigitChar(n % 10))

----------------------------------------------------------------------------
(* time.ParseDuration, on strings without '.' : [-+]? ( digits unit )+ | "0" *)

RECURSIVE DigitPrefixLen(_)
DigitPrefixLen(s) ==
    IF s = <<>> \/ s[1] \notin Digits THEN 0 ELSE 1 + DigitPrefixLen(Tail(s))

RECURSIVE UnitPrefixLen(_)
UnitPrefixLen(s) ==
    IF s = <<>> \/ s[1] \in Digits THEN 0 ELSE 1 + UnitPrefixLen(Tail(s))

RECURSIVE DigitsValue(_, _)
DigitsValue(s, acc) ==
    IF s = <<>> THEN acc ELSE DigitsValue(Tail(s), acc * 10 + DigitVal(s[1]))

UnitKnown(u) == u \in {<<"m", "s">>, <<"s">>, <<"m">>, <<"h">>}

UnitMillis(u) ==
    CASE u = <<"m", "s">> -> 1
      [] u = <<"s">> -> Second
      [] u = <<"m">> -> Minute
      [] u = <<"h">> -> 60 * Minute

ParseFail == [ok |-> FALSE, d |-> 0]

RECURSIVE ParseTerms(_, _)
ParseTerms(s, acc) ==
    IF s = <<>> THEN [ok |-> TRUE, d |-> acc]
    ELSE LET n == DigitPrefixLen(s)
             r == Drop(s, n)
             u == UnitPrefixLen(r)
         IN  IF n = 0 THEN ParseFail                     \* no digits
             ELSE IF u = 0 THEN ParseFail                \* missing unit
             ELSE IF ~UnitKnown(SubSeq(r, 1, u)) THEN ParseFail
             ELSE ParseTerms(Drop(r, u),
                     acc + DigitsValue(SubSeq(s, 1, n), 0)
                           * UnitMillis(SubSeq(r, 1, u)))

ParseDuration(s) ==
    LET signed == s # <<>> /\ s[1] \in {"-", "+"}
        neg == s # <<>> /\ s[1] = "-"
        body == IF signed THEN Tail(s) ELSE s
    IN  IF body = <<"0">> THEN [ok |-> TRUE, d |-> 0]
        ELSE IF body = <<>> THEN ParseFail
        ELSE LET r == ParseTerms(body, 0)
             IN  IF r.ok /\ neg THEN [ok |-> TRUE, d |-> 0 - r.d] ELSE r

----------------------------------------------------------------------------
(* Environment *)

EnvKeys == {"COUCHBASE_CONNECTION_STRING", "COUCHBASE_USERNAME", "COUCHBASE_PASSWORD", "COUCHBASE_BUCKET_NAME",
            "COUCHBASE_SCOPE_NAME", "COUCHBASE_COLLECTION_NAME", "COUCHBASE_INTERVAL", "COUCHBASE_OPERATION_TIMEOUT"}

Unset == [exists |-> FALSE, value |-> <<>>]
SetTo(v) == [exists |-> TRUE, value |-> v]

\* os.Getenv: the value, "" when the variable is not set
Getenv(e, key) == IF e[key].exists THEN e[key].value ELSE <<>>

\* getEnv of main.go:110
getEnv(e, key, defaultValue) ==
    IF Getenv(e, key) # <<>> THEN Getenv(e, key) ELSE defaultValue


\* os.LookupEnv: whether the variable is set at all (an empty value counts)
LookupEnv(e, key) == e[key]

EnvOf(c, u, p, b, s, col, i, t) ==
    [k \in EnvKeys |->
        CASE k = "COUCHBASE_CONNECTION_STRING" -> c
          [] k = "COUCHBASE_USERNAME" -> u
          [] k = "COUCHBASE_PASSWORD" -> p
          [] k = "COUCHBASE_BUCKET_NAME" -> b
          [] k = "COUCHBASE_SCOPE_NAME" -> s
          [] k = "COUCHBASE_COLLECTION_NAME" -> col
          [] k = "COUCHBASE_INTERVAL" -> i
          [] k = "COUCHBASE_OPERATION_TIMEOUT" -> t]

\* a credential is not set, set to "", or set to a one-character value
CredValues == {Unset, SetTo(<<>>), SetTo(<<"a">>)}
NameValues == {Unset, SetTo(<<"n">>)}
\* INTERVAL / OPERATION_TIMEOUT in the full program: absent, malformed,
\* zero, five seconds
DurationSamples == {Unset, SetTo(<<"x">>), SetTo(<<"0", "s">>),
                    SetTo(<<"5", "s">>)}

\* characters of the duration strings the loader specification draws
DurChars == {"0", "5", "s", "-", "x"}

RECURSIVE StringsUpTo(_)
StringsUpTo(n) ==
    IF n = 0 THEN {<<>>}
    ELSE LET shorter == StringsUpTo(n - 1)
         IN  shorter \cup {Append(w, c) : w \in shorter, c \in DurChars}

DurationStrings == {Unset} \cup {SetTo(w) : w \in StringsUpTo(MaxDurLen)}

----------------------------------------------------------------------------
(* Configuration loading *)

\* loadConfig with the two fallback units exchanged (5 s and 10 min)
loadConfigFallbackSeconds(e) ==
    LET intervalStr == getEnv(e, "COUCHBASE_INTERVAL", Str5m)
        timeoutStr == getEnv(e, "COUCHBASE_OPERATION_TIMEOUT", Str10s)
        interval == ParseDuration(intervalStr)
        timeout == ParseDuration(timeoutStr)
        username == getEnv(e, "COUCHBASE_USERNAME", <<>>)
        password == getEnv(e, "COUCHBASE_PASSWORD", <<>>)
    IN  [config |->
            [ClusterURL |-> getEnv(e, "COUCHBASE_CONNECTION_STRING", StrLocalhost),
             Username |-> username,
             Password |-> password,
             BucketName |-> getEnv(e, "COUCHBASE_BUCKET_NAME", StrDefault),
             ScopeName |-> getEnv(e, "COUCHBASE_SCOPE_NAME", StrUnderDefault),
             CollectionName |-> getEnv(e, "COUCHBASE_COLLECTION_NAME", StrUnderDefault),
             Interval |-> IF interval.ok THEN interval.d ELSE 5 * Second,
             OperationTimeout |-> IF timeout.ok THEN timeout.d ELSE 10 * Minute],
         logs |-> (IF interval.ok THEN {} ELSE {"Invalid interval"})
                  \cup (IF timeout.ok THEN {} ELSE {"Invalid operation timeout"}),
         fatal |-> username = <<>> \/ password = <<>>]

\* loadConfig, main.go:73-108: the Config, the warnings logged, and whether
\* log.Fatal was reached
loadConfig(e) ==
    LET intervalStr == getEnv(e, "COUCHBASE_INTERVAL", Str5m)
        timeoutStr == getEnv(e, "COUCHBASE_OPERATION_TIMEOUT", Str10s)
        interval == ParseDuration(intervalStr)
        timeout == ParseDuration(timeoutStr)
        username == getEnv(e, "COUCHBASE_USERNAME", <<>>)
        password == getEnv(e, "COUCHBASE_PASSWORD", <<>>)
    IN  [config |->
            [ClusterURL |-> getEnv(e, "COUCHBASE_CONNECTION_STRING", StrLocalhost),
             Username |-> username,
             Password |-> password,
             BucketName |-> getEnv(e, "COUCHBASE_BUCKET_NAME", StrDefault),
             ScopeName |-> getEnv(e, "COUCHBASE_SCOPE_NAME", StrUnderDefault),
             CollectionName |-> getEnv(e, "COUCHBASE_COLLECTION_NAME", StrUnderDefault),
             Interval |-> IF interval.ok THEN interval.d ELSE 5 * Minute,
             OperationTimeout |-> IF timeout.ok THEN timeout.d ELSE 10 * Second],
         logs |-> (IF interval.ok THEN {} ELSE {"Invalid interval"})
                  \cup (IF timeout.ok THEN {} ELSE {"Invalid operation timeout"}),
         fatal |-> username = <<>> \/ password = <<>>]

\* the Config zero value
NoConfig ==
    [ClusterURL |-> <<>>, Username |-> <<>>, Password |-> <<>>,
     BucketName |-> <<>>, ScopeName |-> <<>>, CollectionName |-> <<>>,
     Interval |-> 0, OperationTimeout |-> 0]

\* the six os.LookupEnv checks of main.go:274-303
RequiredKeys == {"COUCHBASE_CONNECTION_STRING", "COUCHBASE_USERNAME", "COUCHBASE_PASSWORD", "COUCHBASE_BUCKET_NAME",
                 "COUCHBASE_SCOPE_NAME", "COUCHBASE_COLLECTION_NAME"}

lookupAll(e) ==
    [config |->
        [ClusterURL |-> LookupEnv(e, "COUCHBASE_CONNECTION_STRING").value,
         Username |-> LookupEnv(e, "COUCHBASE_USERNAME").value,
         Password |-> LookupEnv(e, "COUCHBASE_PASSWORD").value,
         BucketName |-> LookupEnv(e, "COUCHBASE_BUCKET_NAME").value,
         ScopeName |-> LookupEnv(e, "COUCHBASE_SCOPE_NAME").value,
         CollectionName |-> LookupEnv(e, "COUCHBASE_COLLECTION_NAME").value,
         Interval |-> Minute,
         OperationTimeout |-> 0],
     fatal |-> \E k \in RequiredKeys : ~LookupEnv(e, k).exists]

----------------------------------------------------------------------------
(* Counter and operations *)

\* incrementCounter without its documentCounter++
incrementCounterStuck(c) == c

\* incrementCounter, main.go:184-189: the new value of documentCounter
incrementCounter(c) == c + 1

\* getCurrentCounter, main.go:192-196
getCurrentCounter(c) == c

NoOp == [op |-> "none", id |-> <<>>]
NoLast == [op |-> "none", id |-> <<>>, db |-> "nil", ret |-> "nil"]

\* What gocb returns from Collection.Get. gocb v2 reports a failed key-value
\* call as a *KeyValueError that wraps the sentinel (errors.Is matches it,
\* == does not); the bare sentinel is kept as a possible value too.
GetErrors == {"nil", "ErrDocumentNotFound", "KeyValueError{ErrDocumentNotFound}",
              "KeyValueError{ErrTimeout}", "KeyValueError{other}"}
InsertErrors == {"nil", "KeyValueError{ErrDocumentExists}",
                 "KeyValueError{ErrTimeout}", "KeyValueError{other}"}
IncrementErrors == {"nil", "KeyValueError{ErrTimeout}", "KeyValueError{other}"}

\* errors.Is(err, gocb.ErrDocumentNotFound)
IsDocumentNotFound(err) ==
    err \in {"ErrDocumentNotFound", "KeyValueError{ErrDocumentNotFound}"}

\* performGetOperation, main.go:212-221: what it returns for the error of Get
performGetReturn(err) ==
    IF err # "nil" /\ err # "ErrDocumentNotFound" THEN "get operation failed"
    ELSE "nil"

\* performSetOperation, main.go:244-249
performSetReturn(err) ==
    IF err # "nil" THEN "set operation failed" ELSE "nil"


----------------------------------------------------------------------------
(* State machine *)

InitRest ==
    /\ pc = "start"
    /\ config = NoConfig
    /\ log = {}
    /\ connects = <<>>
    /\ connected = FALSE
    /\ probed = FALSE
    /\ closed = FALSE
    /\ ticker = "none"
    /\ documentCounter = 0
    /\ ids = <<>>
    /\ inFlight = NoOp
    /\ last = NoLast
    /\ ticks = 0
    /\ sig = "none"
    /\ ctxDone = FALSE
    /\ gpc = "none"
    /\ exitStatus = "running"

\* getset reads all eight variables; increment reads the first six
Init ==
    /\ variant \in {"getset", "increment"}
    /\ \E c \in NameValues, u \in CredValues, p \in CredValues,
          b \in NameValues, n \in NameValues,
          i \in DurationSamples, t \in DurationSamples :
          /\ variant = "increment" => (i = Unset /\ t = Unset)
          /\ variant = "getset" => (b = n /\ t \in {Unset, SetTo(<<"x">>)})
          /\ env = EnvOf(c, u, p, b, n, n, i, t)
    /\ InitRest

\* os.Exit: no deferred call runs, every goroutine stops
Halt(status) ==
    /\ exitStatus' = status
    /\ pc' = "exited"

Running == exitStatus = "running"

(* ---- variant getset, main.go:40-250 ---- *)

\* main.go:47, loadConfig and its log.Fatal
LoadConfig ==
    /\ Running /\ variant = "getset" /\ pc = "start"
    /\ LET r == loadConfig(env)
       IN  /\ config' = r.config
           /\ IF r.fatal
              THEN /\ log' = log \cup r.logs \cup {"credentials required"}
                   /\ Halt("fatal")
              ELSE /\ log' = log \cup r.logs
                   /\ pc' = "loaded"
                   /\ UNCHANGED exitStatus
    /\ UNCHANGED <<variant, env, connects, connected, probed, closed, ticker,
                   documentCounter, ids, inFlight, last, ticks, sig, ctxDone,
                   gpc>>

\* main.go:53-57, connectToCluster (117-130) and the defer of cluster.Close
ConnectToCluster ==
    /\ Running /\ variant = "getset" /\ pc = "loaded"
    /\ connects' = Append(connects, [Username |-> config.Username,
                                      Password |-> config.Password])
    /\ \E ok \in BOOLEAN :
          IF ok
          THEN /\ connected' = TRUE
               /\ pc' = "connected"
               /\ UNCHANGED <<log, exitStatus>>
          ELSE /\ log' = log \cup {"Failed to connect to cluster"}
               /\ Halt("fatal")
               /\ UNCHANGED connected
    /\ UNCHANGED <<variant, env, config, probed, closed, ticker,
                   documentCounter, ids, inFlight, last, ticks, sig, ctxDone,
                   gpc>>

\* TestScopeConnection with the error of the ping logged and not fatal
TestScopeConnectionNotFatal ==
    /\ Running /\ variant = "getset" /\ pc = "connected"
    /\ \E ok \in BOOLEAN :
          IF ok
          THEN /\ probed' = TRUE
               /\ log' = log \cup {"Successfully connected"}
          ELSE /\ log' = log \cup {"Failed to connect to scope"}
               /\ UNCHANGED probed
    /\ pc' = "ready"
    /\ UNCHANGED <<variant, env, config, connects, connected, closed, ticker,
                   documentCounter, ids, inFlight, last, ticks, sig, ctxDone,
                   gpc, exitStatus>>

\* main.go:60-67, testScopeConnection (132-145): collection.Ping
TestScopeConnection ==
    /\ Running /\ variant = "getset" /\ pc = "connected"
    /\ \E ok \in BOOLEAN :
          IF ok
          THEN /\ probed' = TRUE
               /\ log' = log \cup {"Successfully connected"}
               /\ pc' = "ready"
               /\ UNCHANGED exitStatus
          ELSE /\ log' = log \cup {"Failed to connect to scope"}
               /\ Halt("fatal")
               /\ UNCHANGED probed
    /\ UNCHANGED <<variant, env, config, connects, connected, closed, ticker,
                   documentCounter, ids, inFlight, last, ticks, sig, ctxDone,
                   gpc>>

\* main.go:148-149, time.NewTicker: it panics on a non-positive interval, and
\* the panic runs main's deferred cluster.Close before the process dies
KeepAliveStart ==
    /\ Running /\ variant = "getset" /\ pc = "ready"
    /\ IF config.Interval <= 0
       THEN /\ closed' = TRUE
            /\ Halt("panic")
            /\ UNCHANGED ticker
       ELSE /\ ticker' = "running"
            /\ pc' = "loop"
            /\ UNCHANGED <<closed, exitStatus>>
    /\ UNCHANGED <<variant, env, config, log, connects, connected, probed,
                   documentCounter, ids, inFlight, last, ticks, sig, ctxDone,
                   gpc>>

\* main.go:153-154, 164-175, 198-209: a tick that draws GET, up to the call
\* of collection.Get
TickGet ==
    /\ Running /\ variant = "getset" /\ pc = "loop" /\ ticks < MaxTicks
    /\ ticks' = ticks + 1
    /\ inFlight' = [op |-> "get",
                    id |-> FormatInt(getCurrentCounter(documentCounter))]
    /\ pc' = "op"
    /\ UNCHANGED <<variant, env, config, log, connects, connected, probed,
                   closed, ticker, documentCounter, ids, last, sig, ctxDone,
                   gpc, exitStatus>>

\* main.go:153-154, 164-175, 224-242: a tick that draws SET, up to the call
\* of collection.Insert
TickSet ==
    /\ Running /\ variant = "getset" /\ pc = "loop" /\ ticks < MaxTicks
    /\ ticks' = ticks + 1
    /\ LET newCounter == incrementCounter(documentCounter)
       IN  /\ documentCounter' = newCounter
           /\ ids' = Append(ids, FormatInt(newCounter))
           /\ inFlight' = [op |-> "set", id |-> FormatInt(newCounter)]
    /\ pc' = "op"
    /\ UNCHANGED <<variant, env, config, log, connects, connected, probed,
                   closed, ticker, last, sig, ctxDone, gpc, exitStatus>>

\* main.go:155-159 with 212-221: collection.Get returns err
GetReturns ==
    /\ Running /\ variant = "getset" /\ pc = "op" /\ inFlight.op = "get"
    /\ \E err \in GetErrors :
          LET ret == performGetReturn(err)
          IN  /\ last' = [op |-> "get", id |-> inFlight.id, db |-> err,
                          ret |-> ret]
              /\ log' = log \cup
                    (IF ret = "nil"
                     THEN {"Successfully retrieved document",
                           "Successfully performed keepalive operation"}
                     ELSE {"Error performing keepalive operation"})
    /\ inFlight' = NoOp
    /\ pc' = "loop"
    /\ UNCHANGED <<variant, env, config, connects, connected, probed, closed,
                   ticker, documentCounter, ids, ticks, sig, ctxDone, gpc,
                   exitStatus>>

\* main.go:155-159 with 244-249: collection.Insert returns err
InsertReturns ==
    /\ Running /\ variant = "getset" /\ pc = "op" /\ inFlight.op = "set"
    /\ \E err \in InsertErrors :
          LET ret == performSetReturn(err)
          IN  /\ last' = [op |-> "set", id |-> inFlight.id, db |-> err,
                          ret |-> ret]
              /\ log' = log \cup
                    (IF ret = "nil"
                     THEN {"Successfully created document",
                           "Successfully performed keepalive operation"}
                     ELSE {"Error performing keepalive operation"})
    /\ inFlight' = NoOp
    /\ pc' = "loop"
    /\ UNCHANGED <<variant, env, config, connects, connected, probed, closed,
                   ticker, documentCounter, ids, ticks, sig, ctxDone, gpc,
                   exitStatus>>


(* ---- variant increment, main.go:265-379 ---- *)

\* incrementCounter(col), main.go:367-379: log.Fatal on an error of
\* Increment (the return after it is never reached), nil otherwise
incrementCounterCol(err) ==
    IF err # "nil" THEN [fatal |-> TRUE, ret |-> err]
    ELSE [fatal |-> FALSE, ret |-> "nil"]

\* main.go:274-303, the six os.LookupEnv checks
LookupEnvAll ==
    /\ Running /\ variant = "increment" /\ pc = "start"
    /\ LET r == lookupAll(env)
       IN  IF r.fatal
           THEN /\ log' = log \cup {"not set"}
                /\ Halt("fatal")
                /\ UNCHANGED config
           ELSE /\ config' = r.config
                /\ pc' = "loaded"
                /\ UNCHANGED <<log, exitStatus>>
    /\ UNCHANGED <<variant, env, connects, connected, probed, closed, ticker,
                   documentCounter, ids, inFlight, last, ticks, sig, ctxDone,
                   gpc>>

\* main.go:305-323, options.ApplyProfile and gocb.Connect
Connect ==
    /\ Running /\ variant = "increment" /\ pc = "loaded"
    /\ \E profileOk \in BOOLEAN, ok \in BOOLEAN :
          IF ~profileOk
          THEN /\ log' = log \cup {"fatal: ApplyProfile"}
               /\ Halt("fatal")
               /\ UNCHANGED <<connects, connected>>
          ELSE /\ connects' = Append(connects,
                                     [Username |-> config.Username,
                                      Password |-> config.Password])
               /\ IF ok
                  THEN /\ connected' = TRUE
                       /\ pc' = "connected"
                       /\ UNCHANGED <<log, exitStatus>>
                  ELSE /\ log' = log \cup {"fatal: Connect"}
                       /\ Halt("fatal")
                       /\ UNCHANGED connected
    /\ UNCHANGED <<variant, env, config, probed, closed, ticker,
                   documentCounter, ids, inFlight, last, ticks, sig, ctxDone,
                   gpc>>

\* main.go:325-330, bucket.WaitUntilReady
WaitUntilReady ==
    /\ Running /\ variant = "increment" /\ pc = "connected"
    /\ \E ok \in BOOLEAN :
          IF ok
          THEN /\ probed' = TRUE
               /\ pc' = "ready"
               /\ UNCHANGED <<log, exitStatus>>
          ELSE /\ log' = log \cup {"fatal: WaitUntilReady"}
               /\ Halt("fatal")
               /\ UNCHANGED probed
    /\ UNCHANGED <<variant, env, config, connects, connected, closed, ticker,
                   documentCounter, ids, inFlight, last, ticks, sig, ctxDone,
                   gpc>>

\* main.go:337-341, the context and the go statement; the goroutine creates
\* its ticker
StartGoroutine ==
    /\ Running /\ variant = "increment" /\ pc = "ready"
    /\ gpc' = "select"
    /\ ticker' = "running"
    /\ pc' = "spawned"
    /\ UNCHANGED <<variant, env, config, log, connects, connected, probed,
                   closed, documentCounter, ids, inFlight, last, ticks, sig,
                   ctxDone, exitStatus>>

\* main.go:355-363, the defer statement and signal.Notify; main then blocks
\* on sigCh
NotifySignals ==
    /\ Running /\ variant = "increment" /\ pc = "spawned"
    /\ pc' = "waiting"
    /\ UNCHANGED <<variant, env, config, log, connects, connected, probed,
                   closed, ticker, documentCounter, ids, inFlight, last, ticks,
                   sig, ctxDone, gpc, exitStatus>>

\* main.go:364, <-sigCh
ReceiveSignal ==
    /\ Running /\ variant = "increment" /\ pc = "waiting" /\ sig = "queued"
    /\ sig' = "taken"
    /\ pc' = "deferred"
    /\ UNCHANGED <<variant, env, config, log, connects, connected, probed,
                   closed, ticker, documentCounter, ids, inFlight, last, ticks,
                   ctxDone, gpc, exitStatus>>

\* main.go:356, cancel()
CancelContext ==
    /\ Running /\ variant = "increment" /\ pc = "deferred"
    /\ ctxDone' = TRUE
    /\ pc' = "closing"
    /\ UNCHANGED <<variant, env, config, log, connects, connected, probed,
                   closed, ticker, documentCounter, ids, inFlight, last, ticks,
                   sig, gpc, exitStatus>>

\* main.go:357-359, cluster.Close(nil), its error logged
CloseCluster ==
    /\ Running /\ variant = "increment" /\ pc = "closing"
    /\ closed' = TRUE
    /\ \E ok \in BOOLEAN :
          log' = IF ok THEN log ELSE log \cup {"Error closing cluster"}
    /\ pc' = "returning"
    /\ UNCHANGED <<variant, env, config, connects, connected, probed, ticker,
                   documentCounter, ids, inFlight, last, ticks, sig, ctxDone,
                   gpc, exitStatus>>

\* main.go:365, main returns: the process exits with status 0
MainReturn ==
    /\ Running /\ variant = "increment" /\ pc = "returning"
    /\ Halt("ok")
    /\ UNCHANGED <<variant, env, config, log, connects, connected, probed,
                   closed, ticker, documentCounter, ids, inFlight, last, ticks,
                   sig, ctxDone, gpc>>

\* main.go:345-346, 372: the select takes ticker.C, up to the call of
\* Increment
GoTick ==
    /\ Running /\ gpc = "select" /\ ticks < MaxTicks
    /\ ticks' = ticks + 1
    /\ inFlight' = [op |-> "increment", id |-> <<"c">>]
    /\ gpc' = "op"
    /\ UNCHANGED <<variant, env, pc, config, log, connects, connected, probed,
                   closed, ticker, documentCounter, ids, last, sig, ctxDone,
                   exitStatus>>

\* main.go:346-348 with 373-378: Increment returns
IncrementReturns ==
    /\ Running /\ gpc = "op"
    /\ \E err \in IncrementErrors :
          LET r == incrementCounterCol(err)
          IN  /\ last' = [op |-> "increment", id |-> inFlight.id, db |-> err,
                          ret |-> r.ret]
              /\ IF r.fatal
                 THEN /\ log' = log \cup {"fatal: Increment"}
                      /\ Halt("fatal")
                      /\ UNCHANGED gpc
                 ELSE /\ log' = log \cup
                            (IF r.ret = "nil" THEN {"Counter"}
                             ELSE {"Keepalive increment error"})
                      /\ gpc' = "select"
                      /\ UNCHANGED <<pc, exitStatus>>
    /\ inFlight' = NoOp
    /\ UNCHANGED <<variant, env, config, connects, connected, probed, closed,
                   ticker, documentCounter, ids, ticks, sig, ctxDone>>

\* main.go:349-350 and the deferred ticker.Stop of 341
GoContextDone ==
    /\ Running /\ gpc = "select" /\ ctxDone
    /\ ticker' = "stopped"
    /\ gpc' = "returned"
    /\ UNCHANGED <<variant, env, pc, config, log, connects, connected, probed,
                   closed, documentCounter, ids, inFlight, last, ticks, sig,
                   ctxDone, exitStatus>>

(* ---- termination signals (one SIGINT or SIGTERM is followed) ---- *)

\* signal.Notify of main.go:363 is in effect
NotifyRegistered ==
    variant = "increment" /\ pc \in {"waiting", "deferred", "closing", "returning"}

\* a signal no handler is registered for: the Go runtime ends the process
SignalKills ==
    /\ Running /\ sig = "none" /\ ~NotifyRegistered
    /\ sig' = "killed"
    /\ Halt("killed")
    /\ UNCHANGED <<variant, env, config, log, connects, connected, probed,
                   closed, ticker, documentCounter, ids, inFlight, last, ticks,
                   ctxDone, gpc>>

\* a signal delivered to sigCh
SignalQueued ==
    /\ Running /\ sig = "none" /\ NotifyRegistered
    /\ sig' = "queued"
    /\ UNCHANGED <<variant, env, pc, config, log, connects, connected, probed,
                   closed, ticker, documentCounter, ids, inFlight, last, ticks,
                   ctxDone, gpc, exitStatus>>

Next ==
    \/ LoadConfig
    \/ ConnectToCluster
    \/ TestScopeConnection
    \/ KeepAliveStart
    \/ TickGet
    \/ TickSet
    \/ GetReturns
    \/ InsertReturns
    \/ LookupEnvAll
    \/ Connect
    \/ WaitUntilReady
    \/ StartGoroutine
    \/ NotifySignals
    \/ ReceiveSignal
    \/ CancelContext
    \/ CloseCluster
    \/ MainReturn
    \/ GoTick
    \/ IncrementReturns
    \/ GoContextDone
    \/ SignalKills
    \/ SignalQueued

Spec == Init /\ [][Next]_vars

(* ---- the configuration loader alone, over every short duration string ---- *)

InitLoader ==
    /\ variant = "getset"
    /\ \E u \in CredValues, p \in CredValues,
          i \in DurationStrings, t \in DurationStrings :
          env = EnvOf(Unset, u, p, Unset, Unset, Unset, i, t)
    /\ InitRest

NextLoader ==
    \/ LoadConfig
    \/ ConnectToCluster

SpecLoader == InitLoader /\ [][NextLoader]_vars


----------------------------------------------------------------------------
(* Claims *)

\* the last finished tick failed
TickFailed == last.op # "none" /\ last.ret # "nil"

\* the scheduler can still take a tick
LoopAlive ==
    IF variant = "getset" THEN pc \in {"loop", "op"} ELSE gpc \in {"select", "op"}

ErrorLogged ==
    log \cap {"Error performing keepalive operation",
              "Keepalive increment error"} # {}

\* C1: in both variants, after a tick whose operation failed (and with no
\* termination signal) the failure is logged, the process still runs and the
\* loop is still there to take the next tick.
C1_ErrorsNeverAbortTheLoop ==
    (TickFailed /\ sig = "none") => (Running /\ ErrorLogged /\ LoopAlive)

\* C2: whenever the process has exited after the cluster connection was
\* established, cluster.Close has been performed.
C2_ClosedOnEveryExit ==
    (~Running /\ connected) => closed

\* C3: once a termination signal has arrived after the loop started and the
\* process has ended, the timer was stopped, the connection was closed and the
\* exit was the clean one.
C3_SignalShutsDownCleanly ==
    (sig # "none" /\ ticker # "none" /\ ~Running)
        => (ticker = "stopped" /\ closed /\ exitStatus = "ok")

CredentialsMissing ==
    Getenv(env, "COUCHBASE_USERNAME") = <<>> \/ Getenv(env, "COUCHBASE_PASSWORD") = <<>>

\* C4: with USERNAME or PASSWORD unset or empty no connect call is made, and
\* no connect call ever carries an empty username or password.
C4_NoConnectWithoutCredentials ==
    /\ CredentialsMissing => connects = <<>>
    /\ \A i \in DOMAIN connects :
          connects[i].Username # <<>> /\ connects[i].Password # <<>>

IdsDistinctIncreasing ==
    \A i, j \in DOMAIN ids :
        i < j => /\ ids[i] # ids[j]
                 /\ DigitsValue(ids[i], 0) < DigitsValue(ids[j], 0)

CounterStep ==
    /\ documentCounter' >= documentCounter
    /\ (inFlight.op = "get" \/ inFlight'.op = "get")
          => documentCounter' = documentCounter

\* C5: documentCounter never decreases, the identifiers generated by the
\* writes of one run (failed inserts included) are pairwise distinct and
\* strictly increasing, and a read leaves the counter unchanged.
C5_CounterMonotonic ==
    []IdsDistinctIncreasing /\ [][CounterStep]_vars

C5_Witness ==
    Len(ids) >= 2 /\ last.op = "set" /\ last.ret # "nil"

\* C6: a read whose Get reports "document not found" returns nil, a read whose
\* Get succeeds returns nil, and a read whose Get fails otherwise returns an
\* error.
C6_NotFoundIsSuccess ==
    last.op = "get" =>
        /\ IsDocumentNotFound(last.db) => last.ret = "nil"
        /\ last.db = "nil" => last.ret = "nil"
        /\ (last.db # "nil" /\ ~IsDocumentNotFound(last.db)) => last.ret # "nil"

IntervalMalformed ==
    ~ParseDuration(getEnv(env, "COUCHBASE_INTERVAL", Str5m)).ok

TimeoutMalformed ==
    ~ParseDuration(getEnv(env, "COUCHBASE_OPERATION_TIMEOUT", Str10s)).ok

\* C7: once loadConfig has run, an interval string that failed to parse left
\* Interval at 5 minutes with a warning, a timeout string that failed to parse
\* left OperationTimeout at 10 seconds with a warning, and with both
\* credentials present the process went on to the connection step.
C7_MalformedDurationFallsBack ==
    pc # "start" =>
        /\ IntervalMalformed =>
              (config.Interval = 5 * Minute /\ "Invalid interval" \in log)
        /\ TimeoutMalformed =>
              (config.OperationTimeout = 10 * Second
               /\ "Invalid operation timeout" \in log)
        /\ ~CredentialsMissing => (pc = "loaded" \/ connects # <<>>)

C7_Witness ==
    IntervalMalformed /\ TimeoutMalformed /\ connects # <<>>

\* C8: while a tick's database call is in flight and stays in flight, neither
\* cancel() nor cluster.Close happens.
C8_ShutdownWaitsForOperation ==
    [][(inFlight.op # "none" /\ inFlight' = inFlight)
          => (ctxDone' = ctxDone /\ closed' = closed)]_vars

\* the identifier the latest write of this run generated ("0" before any)
LatestId == IF ids = <<>> THEN FormatInt(0) ELSE ids[Len(ids)]

\* the targeting half of C9: a read in flight targets the identifier of the
\* latest write of this run, and "0", which no write ever generates, when there
\* was none.
C9_ReadTargetsLatestId ==
    /\ inFlight.op = "get" => inFlight.id = LatestId
    /\ \A i \in DOMAIN ids : ids[i] # FormatInt(0)

\* C9: a read targets the identifier of the latest write of this run; before
\* any write it targets an identifier this run never wrote and its "not
\* found" outcome is reported as success.
C9_ReadTargetsLatestWrite ==
    /\ C9_ReadTargetsLatestId
    /\ (last.op = "get" /\ ids = <<>>)
          => (IsDocumentNotFound(last.db) => last.ret = "nil")

ConnectOrProbeFailed ==
    log \cap {"Failed to connect to cluster", "Failed to connect to scope",
              "fatal: Connect", "fatal: WaitUntilReady"} # {}

\* C10: a timer or a keepalive operation exists only after the connection was
\* established and the probe succeeded; a failed connect or probe ended the
\* process as fatal with no timer, no tick and no second connect call.
C10_NoOperationBeforeProbe ==
    /\ (ticker # "none" \/ ticks > 0 \/ inFlight.op # "none" \/ last.op # "none")
          => (connected /\ probed)
    /\ ConnectOrProbeFailed
          => (exitStatus = "fatal" /\ ticker = "none" /\ ticks = 0)
    /\ Len(connects) <= 1

C10_Witness ==
    last.op # "none" /\ probed /\ ticks >= 2

====
